---- MODULE Spec2Model ----
(***************************************************************************)
(* CelesTLSH-CLI (src/src/main.go): one run of the command-line tool, from *)
(* the Config that parseFlags returned to the exit of the process.         *)
(*                                                                         *)
(* The database file is a sequence of CSV lines, each line a sequence of   *)
(* fields.  Field 4 of a data row is its TLSH text; every other field is a *)
(* cell value unique to its row and column, so that a record read back     *)
(* from a result names the row and the columns it was built from.          *)
(***************************************************************************)
EXTENDS Integers, Sequences, FiniteSets, TLC

VARIABLES config, inFile, db, pc, matches, ret, err, stdout, stderr, exitCode, cerr, resp

vars == <<config, inFile, db, pc, matches, ret, err, stdout, stderr, exitCode, cerr, resp>>

(***************************************************************************)
(* Bounds of the model.                                                    *)
(***************************************************************************)
MaxRows == 2

(***************************************************************************)
(* Constants of the program and of the libraries it calls.                 *)
(***************************************************************************)
expectedColumns == 8

maxInsertion == 12

StatusOK == 200

nil == "nil"

(***************************************************************************)
(* TLSH texts.  HashA and HashALower are two spellings of one digest (the  *)
(* hexadecimal payload is decoded case-insensitively); BadHash is a text   *)
(* that does not decode.                                                   *)
(***************************************************************************)
HashA == "T1A0"
HashALower == "t1a0"
HashB == "T1B2"
BadHash == "T1ZZ"

DecodableTexts == {HashA, HashALower, HashB}

HashTexts == {"", "N/A", BadHash, HashA, HashALower, HashB}

\* tlsh.ParseStringToTlsh: the digest of a text, or an error.
ParseStringToTlsh(text) ==
  IF text \in DecodableTexts
    THEN [err |-> nil, digest |-> IF text = HashB THEN 2 ELSE 0]
    ELSE [err |-> "tlsh: invalid hash", digest |-> 0]

\* (*TLSH).Diff: a symmetric non-negative score, 0 for equal digests.
Diff(t1, t2) == IF t1.digest >= t2.digest THEN t1.digest - t2.digest
                                          ELSE t2.digest - t1.digest

\* calculateTLSHDistance without the check of the second operand's error.
calculateTLSHDistanceSecondUnchecked(hash1, hash2) ==
  LET t1 == ParseStringToTlsh(hash1)
      t2 == ParseStringToTlsh(hash2)
  IN  IF t1.err # nil THEN [distance |-> -1, err |-> "error parsing first hash"]
      ELSE [distance |-> Diff(t1, t2), err |-> nil]

\* calculateTLSHDistance
calculateTLSHDistance(hash1, hash2) ==
  LET t1 == ParseStringToTlsh(hash1)
      t2 == ParseStringToTlsh(hash2)
  IN  IF t1.err # nil THEN [distance |-> -1, err |-> "error parsing first hash"]
      ELSE IF t2.err # nil THEN [distance |-> -1, err |-> "error parsing second hash"]
      ELSE [distance |-> Diff(t1, t2), err |-> nil]

(***************************************************************************)
(* Files.                                                                  *)
(***************************************************************************)
HeaderWidths == {7, 8, 9}

RowWidths == {7, 8, 9}

RowHashes == {"", "N/A", BadHash, HashA, HashALower, HashB}

QueryTexts == {HashA, HashALower, HashB, BadHash}

\* The value of column k of line i (line 0 is the header).
Cell(i, k) == 10 * i + k

HeaderLine(n) == [k \in 1..n |-> Cell(0, k)]

RowLine(i, n, h) == [k \in 1..n |-> IF k = 4 THEN h ELSE Cell(i, k)]

RowKinds == [n : RowWidths, h : RowHashes]

\* A CSV file: a header of hn columns and one line per element of kinds.
CsvFile(hn, kinds) ==
  <<HeaderLine(hn)>> \o [i \in 1..Len(kinds) |-> RowLine(i, kinds[i].n, kinds[i].h)]

CsvFiles ==
  {<<>>} \cup UNION {{CsvFile(hn, kinds) : hn \in HeaderWidths, kinds \in [1..m -> RowKinds]}
                     : m \in 0..MaxRows}

\* Files of maxInsertion + 1 well-formed rows, the shortest that sort.Slice
\* does not hand to its insertion sort.
LongRowKinds == [n : {expectedColumns}, h : {HashA, HashB}]

LongCsvFiles ==
  {CsvFile(expectedColumns, kinds) : kinds \in [1..(maxInsertion + 1) -> LongRowKinds]}

NoFile == [exists |-> FALSE, readable |-> FALSE, lines |-> <<>>]

FileOf(lines) == [exists |-> TRUE, readable |-> TRUE, lines |-> lines]

Unreadable == [exists |-> TRUE, readable |-> FALSE, lines |-> <<>>]

\* What the server at csvURL holds.
RemoteCsv == CsvFile(expectedColumns, <<[n |-> expectedColumns, h |-> HashA]>>)

(***************************************************************************)
(* encoding/csv: Reader.Read with FieldsPerRecord = 0, the value           *)
(* csv.NewReader leaves it at: the first record read fixes the number of   *)
(* fields, and every later record with another number of fields is         *)
(* returned together with ErrFieldCount.                                   *)
(***************************************************************************)
NewReader == [pos |-> 1, FieldsPerRecord |-> 0]

Read(r, lines) ==
  IF r.pos > Len(lines)
    THEN [record |-> <<>>, err |-> "EOF", reader |-> r]
    ELSE LET rec == lines[r.pos]
         IN  IF r.FieldsPerRecord = 0
               THEN [record |-> rec, err |-> nil,
                     reader |-> [pos |-> r.pos + 1, FieldsPerRecord |-> Len(rec)]]
               ELSE [record |-> rec,
                     err |-> IF Len(rec) = r.FieldsPerRecord THEN nil ELSE "wrong number of fields",
                     reader |-> [r EXCEPT !.pos = r.pos + 1]]

(***************************************************************************)
(* type HashRecord                                                         *)
(***************************************************************************)
HashRecord(record, distance) ==
  [RepoName |-> record[1], FileName |-> record[2], Version |-> record[3],
   TLSHHash |-> record[4], SHA256Hash |-> record[5], Imphash |-> record[6],
   DateAdded |-> record[7], Intel |-> record[8], Distance |-> distance]

(***************************************************************************)
(* sort.Slice(matches, less) with less(i, j) = Distance[i] < Distance[j],  *)
(* as the sort package of the Go release the build uses (1.21) runs it:    *)
(* pdqsort_func.  A slice of at most maxInsertion elements is sorted by    *)
(* insertion.  A longer one is returned as it is when it is in order;      *)
(* otherwise it is partitioned around the median of three of its elements  *)
(* and its two sides are sorted in turn.  The pivot is chosen as for       *)
(* slices of fewer than 50 elements.  A side longer than maxInsertion is   *)
(* sorted by further passes that depend on the history of the sort: of     *)
(* these only the contract is kept, that elements that compare equal come  *)
(* in an unspecified order, so any of the least elements may come first.   *)
(***************************************************************************)
less(x, y) == x.Distance < y.Distance

Swap(s, i, j) == [s EXCEPT ![i] = s[j], ![j] = s[i]]

RECURSIVE insertionStep(_, _)
\* Moves the element at j down while it is less than its predecessor.
insertionStep(s, j) ==
  IF j > 1 /\ less(s[j], s[j - 1])
    THEN insertionStep(Swap(s, j, j - 1), j - 1)
    ELSE s

RECURSIVE insertionSort(_, _)
insertionSort(s, i) ==
  IF i > Len(s) THEN s ELSE insertionSort(insertionStep(s, i), i + 1)

\* order2_func: the two indices, the one of the lesser element first.
order2(s, a, b) == IF less(s[b], s[a]) THEN <<b, a>> ELSE <<a, b>>

\* median_func
median(s, a, b, c) ==
  LET ab == order2(s, a, b)
      bc == order2(s, ab[2], c)
      ab2 == order2(s, ab[1], bc[1])
  IN  ab2[2]

\* choosePivot_func
choosePivot(s) ==
  LET q == Len(s) \div 4
  IN  median(s, q + 1, 2 * q + 1, 3 * q + 1)

\* partialInsertionSort_func on a slice of fewer than 50 elements: whether
\* the slice is in order; it moves nothing.
partialInsertionSort(s) == \A i \in 2..Len(s) : ~less(s[i], s[i - 1])

RECURSIVE skipLess(_, _, _)
skipLess(s, i, j) == IF i <= j /\ less(s[i], s[1]) THEN skipLess(s, i + 1, j) ELSE i

RECURSIVE skipNotLess(_, _, _)
skipNotLess(s, i, j) == IF i <= j /\ ~less(s[j], s[1]) THEN skipNotLess(s, i, j - 1) ELSE j

RECURSIVE partitionFrom(_, _, _)
\* partition_func once the pivot is the first element.
partitionFrom(s, i0, j0) ==
  LET i == skipLess(s, i0, j0)
      j == skipNotLess(s, i, j0)
  IN  IF i > j THEN [data |-> Swap(s, j, 1), mid |-> j]
      ELSE partitionFrom(Swap(s, i, j), i + 1, j - 1)

\* partition_func
partition(s, pivot) == partitionFrom(Swap(s, 1, pivot), 2, Len(s))

RemoveAt(s, k) == [i \in 1..(Len(s) - 1) |-> IF i < k THEN s[i] ELSE s[i + 1]]

Least(s) == {k \in 1..Len(s) : \A i \in 1..Len(s) : ~less(s[i], s[k])}

\* The orders a side of the partition can be left in.
sortSide(s) ==
  IF Len(s) <= maxInsertion
    THEN {insertionSort(s, 2)}
    ELSE {<<s[k]>> \o insertionSort(RemoveAt(s, k), 2) : k \in Least(s)}

\* pdqsort_func on a slice of more than maxInsertion elements
pdqsort(s) ==
  IF partialInsertionSort(s) THEN {s}
  ELSE LET p == partition(s, choosePivot(s))
       IN  {left \o <<p.data[p.mid]>> \o right :
              left \in sortSide(SubSeq(p.data, 1, p.mid - 1)),
              right \in sortSide(SubSeq(p.data, p.mid + 1, Len(s)))}

\* The orders sort.Slice can leave the slice in.
sortSlice(s) == IF Len(s) <= maxInsertion THEN {insertionSort(s, 2)} ELSE pdqsort(s)

(***************************************************************************)
(* The run.                                                                *)
(***************************************************************************)
DefaultDbPath == "tlsh_hashes.csv"

DbPaths == {DefaultDbPath, "data/tlsh_hashes.csv"}

\* filepath.Dir
Dir(path) == IF path = DefaultDbPath THEN "." ELSE "data"

\* The files a hash can be asked of: absent, shorter than TLSH accepts, or
\* one whose digest prints as HashA.
InputFiles == {"absent", "short", "sample"}

Line(format, args) == [format |-> format, args |-> args]

NoResult == [hash |-> "", distance |-> 0, match |-> <<>>, err |-> nil]

Configs(mode, paths, files, hashes1, hashes2) ==
  [Mode : {mode}, FilePath : files, Hash1 : hashes1, Hash2 : hashes2,
   DbPath : paths, Quiet : BOOLEAN, OutputCSV : BOOLEAN]

\* parseFlags: the Config of each mode, with the arguments the mode requires.
parseFlags ==
  Configs("hash", {DefaultDbPath}, {"sample.bin"}, {""}, {""})
    \cup Configs("distance", {DefaultDbPath}, {""}, HashTexts, HashTexts)
    \cup Configs("download", DbPaths, {""}, {""}, {""})
    \cup Configs("check", {DefaultDbPath}, {""}, QueryTexts, {""})

Start ==
  /\ pc = "execute"
  /\ matches = <<>>
  /\ ret = NoResult
  /\ err = nil
  /\ stdout = <<>>
  /\ stderr = <<>>
  /\ exitCode = -1
  /\ cerr = nil
  /\ resp = 0

Init ==
  /\ config \in parseFlags
  /\ inFile \in IF config.Mode = "hash" THEN InputFiles ELSE {"absent"}
  /\ db \in CASE config.Mode = "check" ->
                   {NoFile, Unreadable} \cup {FileOf(l) : l \in CsvFiles}
              [] config.Mode = "download" -> {NoFile, FileOf(<<HeaderLine(expectedColumns)>>)}
              [] OTHER -> {NoFile}
  /\ Start

\* calculateTLSHHash
calculateTLSHHash(file) ==
  IF file = "absent" THEN [hash |-> "", err |-> "error reading file"]
  ELSE IF file = "short" THEN [hash |-> "", err |-> "error calculating TLSH hash"]
  ELSE [hash |-> HashA, err |-> nil]

\* executeHash
executeHash ==
  /\ pc = "execute"
  /\ config.Mode = "hash"
  /\ LET r == calculateTLSHHash(inFile)
     IN  /\ ret' = [ret EXCEPT !.hash = r.hash, !.err = r.err]
         /\ IF r.err # nil
              THEN /\ err' = "failed to calculate TLSH hash"
                   /\ stdout' = stdout
              ELSE /\ err' = nil
                   /\ stdout' = IF config.Quiet
                                  THEN Append(stdout, Line("%s", <<r.hash>>))
                                  ELSE Append(stdout, Line("TLSH hash of %s: %s",
                                                           <<config.FilePath, r.hash>>))
  /\ pc' = "main"
  /\ UNCHANGED <<config, inFile, db, matches, stderr, exitCode, cerr, resp>>

\* executeDistance
executeDistance ==
  /\ pc = "execute"
  /\ config.Mode = "distance"
  /\ LET r == calculateTLSHDistance(config.Hash1, config.Hash2)
     IN  /\ ret' = [ret EXCEPT !.distance = r.distance, !.err = r.err]
         /\ IF r.err # nil
              THEN /\ err' = "failed to calculate TLSH distance"
                   /\ stdout' = stdout
              ELSE /\ err' = nil
                   /\ stdout' = IF config.Quiet
                                  THEN Append(stdout, Line("%d", <<r.distance>>))
                                  ELSE Append(stdout, Line("Distance between hashes: %d",
                                                           <<r.distance>>))
  /\ pc' = "main"
  /\ UNCHANGED <<config, inFile, db, matches, stderr, exitCode, cerr, resp>>

(***************************************************************************)
(* downloadCSVDatabase, one action per call that can fail.                 *)
(***************************************************************************)
\* os.MkdirAll(filepath.Dir(outputPath)), skipped for the directory "."
downloadMkdirAll ==
  /\ pc = "execute"
  /\ config.Mode = "download"
  /\ \E ok \in IF Dir(config.DbPath) # "." THEN BOOLEAN ELSE {TRUE} :
       IF ok
         THEN pc' = "get" /\ ret' = ret
         ELSE pc' = "downloaded" /\ ret' = [ret EXCEPT !.err = "error creating directory"]
  /\ UNCHANGED <<config, inFile, db, matches, err, stdout, stderr, exitCode, cerr, resp>>

\* client.Get(csvURL) without the check of resp.StatusCode: every response
\* that arrived goes on to os.Create.
downloadGetStatusUnchecked ==
  /\ pc = "get"
  /\ \E status \in {0, StatusOK, 404} :
       /\ resp' = status
       /\ IF status = 0
            THEN pc' = "downloaded" /\ ret' = [ret EXCEPT !.err = "error making HTTP request"]
            ELSE pc' = "create" /\ ret' = ret
  /\ UNCHANGED <<config, inFile, db, matches, err, stdout, stderr, exitCode, cerr>>

\* client.Get(csvURL) and the check of resp.StatusCode; status 0 stands for
\* a request that failed (no response), and resp keeps the status received.
downloadGet ==
  /\ pc = "get"
  /\ \E status \in {0, StatusOK, 404} :
       /\ resp' = status
       /\ IF status = 0
            THEN pc' = "downloaded" /\ ret' = [ret EXCEPT !.err = "error making HTTP request"]
            ELSE IF status # StatusOK
              THEN pc' = "downloaded" /\ ret' = [ret EXCEPT !.err = "unexpected status code"]
              ELSE pc' = "create" /\ ret' = ret
  /\ UNCHANGED <<config, inFile, db, matches, err, stdout, stderr, exitCode, cerr>>

\* os.Create(outputPath): creates the file or truncates it.
downloadCreate ==
  /\ pc = "create"
  /\ \E ok \in BOOLEAN :
       IF ok
         THEN pc' = "copy" /\ db' = FileOf(<<>>) /\ ret' = ret
         ELSE /\ pc' = "downloaded"
              /\ db' = db
              /\ ret' = [ret EXCEPT !.err = "error creating output file"]
  /\ UNCHANGED <<config, inFile, matches, err, stdout, stderr, exitCode, cerr, resp>>

\* io.Copy(out, resp.Body), then the deferred out.Close(): its error is
\* assigned to the local err after the result of the function was set.
downloadCopy ==
  /\ pc = "copy"
  /\ \E n \in 0..Len(RemoteCsv), closed \in {nil, "close failed"} :
       /\ db' = FileOf(SubSeq(RemoteCsv, 1, n))
       /\ ret' = [ret EXCEPT !.err = IF n < Len(RemoteCsv)
                                       THEN "error saving data to file" ELSE nil]
       /\ cerr' = closed
  /\ pc' = "downloaded"
  /\ UNCHANGED <<config, inFile, matches, err, stdout, stderr, exitCode, resp>>

\* executeDownload, from the return of downloadCSVDatabase
executeDownload ==
  /\ pc = "downloaded"
  /\ IF ret.err # nil
       THEN err' = "failed to download CSV database" /\ stdout' = stdout
       ELSE /\ err' = nil
            /\ stdout' = IF config.Quiet THEN stdout
                         ELSE Append(stdout, Line("CSV database downloaded to %s",
                                                  <<config.DbPath>>))
  /\ pc' = "main"
  /\ UNCHANGED <<config, inFile, db, matches, ret, stderr, exitCode, cerr, resp>>

(***************************************************************************)
(* checkTLSHAgainstDatabase.                                               *)
(***************************************************************************)
Failure(message, scored) == [match |-> <<>>, err |-> message, matches |-> scored]

\* The validation of the header, one column off.
headerTooShortOffByOne(header) == Len(header) < expectedColumns - 1

\* The validation of the header.
headerTooShort(header) == Len(header) < expectedColumns

\* The records a row is skipped for.
skipRecord(record) ==
  \/ Len(record) < 8
  \/ record[4] = ""
  \/ record[4] = "N/A"
  \/ ParseStringToTlsh(record[4]).err # nil

RECURSIVE processRecords(_, _, _, _)
\* The loop over the records: the slice of matches at its end, or the error
\* that ends it.
processRecords(reader, lines, hashObj, scored) ==
  LET r == Read(reader, lines)
      record == r.record
  IN  IF r.err = "EOF" THEN [matches |-> scored, err |-> nil]
      ELSE IF r.err # nil THEN [matches |-> scored, err |-> "error reading CSV record"]
      ELSE IF skipRecord(record) THEN processRecords(r.reader, lines, hashObj, scored)
      ELSE processRecords(r.reader, lines, hashObj,
             Append(scored,
                    HashRecord(record, Diff(hashObj, ParseStringToTlsh(record[4])))))

\* The results checkTLSHAgainstDatabase can return for a hash and a file that
\* exists: the record returned (none: the empty sequence), the error, and the
\* slice of matches as it is at the return.
checkTLSHAgainstDatabase(hashToCheck, file) ==
  LET header == Read(NewReader, file.lines)
      hashObj == ParseStringToTlsh(hashToCheck)
      loop == processRecords(header.reader, file.lines, hashObj, <<>>)
  IN  IF ~file.readable THEN {Failure("error opening database file", <<>>)}
      ELSE IF header.err # nil THEN {Failure("error reading CSV header", <<>>)}
      ELSE IF headerTooShort(header.record)
        THEN {Failure("CSV header has fewer columns than expected", <<>>)}
      ELSE IF hashObj.err # nil THEN {Failure("error parsing input hash", <<>>)}
      ELSE IF loop.err # nil THEN {Failure(loop.err, loop.matches)}
      ELSE IF Len(loop.matches) = 0 THEN {[match |-> <<>>, err |-> nil, matches |-> <<>>]}
      ELSE {[match |-> <<sorted[1]>>, err |-> nil, matches |-> sorted]
              : sorted \in sortSlice(loop.matches)}

\* The lines for a match when the quiet form is tried before the CSV form.
BestMatchLinesQuietFirst(match, OutputCSV, Quiet) ==
  IF Quiet
    THEN <<Line("%s", <<match.SHA256Hash>>)>>
    ELSE <<Line("%s,%s,%s,%s,%d", <<match.RepoName, match.FileName, match.Version,
                                    match.SHA256Hash, match.Distance>>)>>

\* The lines executeCheck prints for a match.
BestMatchLines(match, OutputCSV, Quiet) ==
  IF OutputCSV
    THEN <<Line("%s,%s,%s,%s,%d", <<match.RepoName, match.FileName, match.Version,
                                    match.SHA256Hash, match.Distance>>)>>
    ELSE IF Quiet
      THEN <<Line("%s", <<match.SHA256Hash>>)>>
      ELSE <<Line("Best match found:", <<>>),
             Line("  Tool: %s", <<match.RepoName>>),
             Line("  File: %s", <<match.FileName>>),
             Line("  SHA256: %s", <<match.SHA256Hash>>),
             Line("  Distance: %d", <<match.Distance>>)>>

\* executeCheck
executeCheck ==
  /\ pc = "execute"
  /\ config.Mode = "check"
  /\ IF ~db.exists
       THEN /\ err' = "database file does not exist"
            /\ UNCHANGED <<ret, matches, stdout>>
       ELSE \E r \in checkTLSHAgainstDatabase(config.Hash1, db) :
              /\ ret' = [ret EXCEPT !.match = r.match, !.err = r.err]
              /\ matches' = r.matches
              /\ IF r.err # nil
                   THEN err' = "failed to check TLSH against database" /\ stdout' = stdout
                   ELSE /\ err' = nil
                        /\ stdout' =
                             IF r.match = <<>>
                               THEN IF config.Quiet THEN stdout
                                    ELSE Append(stdout,
                                                Line("No matches found in the database", <<>>))
                               ELSE stdout \o BestMatchLines(r.match[1], config.OutputCSV,
                                                             config.Quiet)
  /\ pc' = "main"
  /\ UNCHANGED <<config, inFile, db, stderr, exitCode, cerr, resp>>

\* main, from the return of execute
main ==
  /\ pc = "main"
  /\ IF err # nil
       THEN stderr' = Append(stderr, Line("Error: %v", <<err>>)) /\ exitCode' = 1
       ELSE stderr' = stderr /\ exitCode' = 0
  /\ pc' = "exited"
  /\ UNCHANGED <<config, inFile, db, matches, ret, err, stdout, cerr, resp>>

Next ==
  \/ executeHash
  \/ executeDistance
  \/ downloadMkdirAll
  \/ downloadGet
  \/ downloadCreate
  \/ downloadCopy
  \/ executeDownload
  \/ executeCheck
  \/ main

Spec == Init /\ [][Next]_vars

\* The same runs, and the checks of the files of maxInsertion + 1 rows.
InitLong ==
  \/ Init
  \/ /\ config \in {c \in parseFlags : c.Mode = "check" /\ c.Hash1 = HashA
                                        /\ ~c.Quiet /\ c.OutputCSV}
     /\ inFile = "absent"
     /\ db \in {FileOf(l) : l \in LongCsvFiles}
     /\ Start

SpecLong == InitLong /\ [][Next]_vars

(***************************************************************************)
(* Vocabulary of the properties.  Rows are numbered from 1, after the      *)
(* header; a record names its row by its cells.                            *)
(***************************************************************************)
\* checkTLSHAgainstDatabase was called and has returned.
Returned == config.Mode = "check" /\ db.exists /\ pc \in {"main", "exited"}

HeaderValid == db.readable /\ Len(db.lines) >= 1 /\ Len(db.lines[1]) >= 8

DataRows == 1..(Len(db.lines) - 1)

Row(i) == db.lines[i + 1]

Decodable(text) == text \in DecodableTexts

\* Rows of fewer than 8 fields.
ShortRows == {i \in DataRows : Len(Row(i)) < 8}

\* Rows whose TLSH field is empty, "N/A" or does not decode.
HashlessRows == {i \in DataRows : ~Decodable(Row(i)[4])}

\* Rows the loader is to keep.
AcceptedRows == DataRows \ (ShortRows \cup HashlessRows)

DistanceOf(i) == Diff(ParseStringToTlsh(config.Hash1), ParseStringToTlsh(Row(i)[4]))

RowOf(record) == record.RepoName \div 10

ScoredRows == {RowOf(matches[k]) : k \in 1..Len(matches)}

\* Every data row has as many fields as the header.
RowsMatchHeader == \A i \in DataRows : Len(Row(i)) = Len(db.lines[1])

\* The file without its row i.
WithoutRow(i) == [db EXCEPT !.lines = RemoveAt(db.lines, i + 1)]

(***************************************************************************)
(* C1: with a valid header, a decodable query and at least one accepted    *)
(* row, the check returns a record of an accepted row whose Distance is    *)
(* the distance of the query to that row and at most the distance to every *)
(* accepted row, and every accepted row was scored.                        *)
(***************************************************************************)
LowestDistanceReturned ==
  (Returned /\ HeaderValid /\ Decodable(config.Hash1) /\ AcceptedRows # {}) =>
    /\ ret.err = nil
    /\ ret.match # <<>>
    /\ RowOf(ret.match[1]) \in AcceptedRows
    /\ ret.match[1].Distance = DistanceOf(RowOf(ret.match[1]))
    /\ \A i \in AcceptedRows : ret.match[1].Distance <= DistanceOf(i)
    /\ ScoredRows = AcceptedRows

\* C1 for the files whose rows all have the header's number of fields.
LowestDistanceReturnedWhenRowsMatchHeader == RowsMatchHeader => LowestDistanceReturned

(***************************************************************************)
(* C2: the record returned is of the earliest row among the accepted rows  *)
(* at the returned distance, whatever the number of rows.                  *)
(***************************************************************************)
EarliestOfEqualDistance ==
  (Returned /\ ret.err = nil /\ ret.match # <<>>) =>
    \A i \in AcceptedRows :
      DistanceOf(i) = ret.match[1].Distance => RowOf(ret.match[1]) <= i

\* C2 for the files of at most maxInsertion rows.
EarliestOfEqualDistanceWhenShort ==
  Len(db.lines) - 1 <= 12 => EarliestOfEqualDistance

(***************************************************************************)
(* C3: a row of fewer than 8 fields is skipped and is not fatal: when the  *)
(* header is valid, the query decodes and every row of 8 fields or more    *)
(* has the header's number of fields, a file with such a row is checked    *)
(* without error and its accepted rows are scored.                         *)
(***************************************************************************)
ShortRowSkipped ==
  (/\ Returned /\ HeaderValid /\ Decodable(config.Hash1)
   /\ ShortRows # {}
   /\ \A i \in DataRows \ ShortRows : Len(Row(i)) = Len(db.lines[1])) =>
    /\ ret.err = nil
    /\ ScoredRows = AcceptedRows

(***************************************************************************)
(* C4: a row whose TLSH field is empty, "N/A" or does not decode is not    *)
(* scored, and the check returns what it returns for the file without the  *)
(* row.                                                                    *)
(***************************************************************************)
HashlessRowIgnored ==
  Returned =>
    \A i \in HashlessRows :
      /\ i \notin ScoredRows
      /\ \E r \in checkTLSHAgainstDatabase(config.Hash1, WithoutRow(i)) :
           r.match = ret.match /\ r.err = ret.err

\* C4 for the rows that have the header's number of fields.
HashlessRowIgnoredWhenRowMatchesHeader ==
  Returned =>
    \A i \in HashlessRows :
      Len(Row(i)) = Len(db.lines[1]) =>
        /\ i \notin ScoredRows
        /\ \E r \in checkTLSHAgainstDatabase(config.Hash1, WithoutRow(i)) :
             r.match = ret.match /\ r.err = ret.err

(***************************************************************************)
(* C5: with a valid header and a decodable query, a file without accepted  *)
(* rows makes the check return no record and no error, executeCheck return *)
(* nil and the process exit with status 0 and nothing on stderr.           *)
(***************************************************************************)
NoMatchIsSuccess ==
  (Returned /\ HeaderValid /\ Decodable(config.Hash1) /\ AcceptedRows = {}) =>
    /\ ret.err = nil
    /\ ret.match = <<>>
    /\ err = nil
    /\ pc = "exited" => (exitCode = 0 /\ stderr = <<>>)

\* C5 for the files whose rows all have the header's number of fields.
NoMatchIsSuccessWhenRowsMatchHeader == RowsMatchHeader => NoMatchIsSuccess

(***************************************************************************)
(* C6: a header of fewer than 8 columns makes the check return an error    *)
(* and no record, whatever the rows and the query; no row is scored.       *)
(***************************************************************************)
ShortHeaderFails ==
  (Returned /\ db.readable /\ Len(db.lines) >= 1 /\ Len(db.lines[1]) < 8) =>
    /\ ret.err = "CSV header has fewer columns than expected"
    /\ ret.match = <<>>
    /\ matches = <<>>
    /\ stdout = <<>>

\* The check has returned for a header of 7 columns and a row of 8 fields
\* whose TLSH text is the query.
ShortHeaderWitness ==
  /\ Returned
  /\ Len(db.lines) >= 2
  /\ Len(db.lines[1]) = 7
  /\ \E i \in DataRows :
       Len(Row(i)) = 8 /\ Row(i)[4] = config.Hash1 /\ Decodable(config.Hash1)

(***************************************************************************)
(* C7: when the query is the TLSH text of an accepted row, the check       *)
(* returns a record of Distance 0, the one of the earliest row at distance *)
(* 0.                                                                      *)
(***************************************************************************)
VerbatimHashFound ==
  (Returned /\ HeaderValid /\ \E i \in AcceptedRows : Row(i)[4] = config.Hash1) =>
    /\ ret.err = nil
    /\ ret.match # <<>>
    /\ ret.match[1].Distance = 0
    /\ RowOf(ret.match[1]) \in AcceptedRows
    /\ \A i \in AcceptedRows : DistanceOf(i) = 0 => RowOf(ret.match[1]) <= i

\* C7 for the files of at most maxInsertion rows that all have the header's
\* number of fields.
VerbatimHashFoundWhenShortAndRowsMatchHeader ==
  (RowsMatchHeader /\ Len(db.lines) - 1 <= 12) => VerbatimHashFound

(***************************************************************************)
(* C8: calculateTLSHDistance returns -1 and an error when one of its       *)
(* operands does not decode, and a distance of 0 or more without error     *)
(* only when both decode; the check returns an error and no record when    *)
(* the query does not decode.                                              *)
(***************************************************************************)
MalformedOperandFails ==
  /\ (config.Mode = "distance" /\ pc \in {"main", "exited"}) =>
       /\ (~Decodable(config.Hash1) \/ ~Decodable(config.Hash2)) =>
            (ret.err # nil /\ ret.distance = -1 /\ stdout = <<>>)
       /\ (ret.err = nil \/ ret.distance >= 0) =>
            (Decodable(config.Hash1) /\ Decodable(config.Hash2))
       /\ ret.err = nil <=> ret.distance >= 0
  /\ (Returned /\ ~Decodable(config.Hash1)) =>
       (ret.err # nil /\ ret.match = <<>> /\ matches = <<>>)

\* The distance was asked of a hash that decodes and one that does not.
MalformedOperandWitness ==
  /\ config.Mode = "distance"
  /\ pc = "exited"
  /\ Decodable(config.Hash1)
  /\ config.Hash2 = BadHash
  /\ ret.distance = -1

(***************************************************************************)
(* C9: every error other than a skipped row ends the run with a message on *)
(* stderr and exit status 1, and a run without error ends with status 0.   *)
(***************************************************************************)
\* An error was met: by the operation of the mode, by os.Stat, or by the
\* deferred out.Close().
ErrorMet == ret.err # nil \/ (config.Mode = "check" /\ ~db.exists) \/ cerr # nil

EveryErrorExitsWithStatus1 ==
  pc = "exited" =>
    /\ exitCode = 1 <=> ErrorMet
    /\ exitCode = 0 <=> ~ErrorMet
    /\ Len(stderr) = 1 <=> ErrorMet

\* C9 for the errors the mode's operation returns, and os.Stat's.
ExitStatusFollowsReturnedError ==
  /\ pc # "exited" => (exitCode = -1 /\ stderr = <<>>)
  /\ pc = "exited" =>
       /\ exitCode = 1 <=> (ret.err # nil \/ (config.Mode = "check" /\ ~db.exists))
       /\ exitCode = 0 <=> ~(ret.err # nil \/ (config.Mode = "check" /\ ~db.exists))
       /\ stderr = (IF exitCode = 1 THEN <<Line("Error: %v", <<err>>)>> ELSE <<>>)

(***************************************************************************)
(* C10: in check mode with CSV output and a match, exactly one line is     *)
(* written, of the five fields tool, file, version, content hash and       *)
(* distance of the record returned, whether quiet output is selected or    *)
(* not.                                                                    *)
(***************************************************************************)
CsvLineOfBestMatch ==
  (/\ config.Mode = "check" /\ pc \in {"main", "exited"}
   /\ config.OutputCSV /\ ret.err = nil /\ ret.match # <<>>) =>
    /\ Len(stdout) = 1
    /\ stdout[1].format = "%s,%s,%s,%s,%d"
    /\ Len(stdout[1].args) = 5
    /\ LET row == RowOf(ret.match[1])
       IN  /\ stdout[1].args[1] = Row(row)[1]
           /\ stdout[1].args[2] = Row(row)[2]
           /\ stdout[1].args[3] = Row(row)[3]
           /\ stdout[1].args[4] = Row(row)[5]
           /\ stdout[1].args[5] = ret.match[1].Distance
           /\ stdout[1].args[5] = DistanceOf(row)

\* A match was written with both CSV and quiet output selected.
CsvLineWitness ==
  /\ config.Mode = "check"
  /\ pc = "exited"
  /\ config.OutputCSV
  /\ config.Quiet
  /\ ret.match # <<>>
  /\ Len(db.lines) >= 3
  /\ stdout # <<>>

\* downloadCSVDatabase has returned.
DownloadReturned == config.Mode = "download" /\ pc \in {"downloaded", "main", "exited"}

\* A step of a download run in which no response of status 200 is held.
NoOKResponse == config.Mode = "download" /\ resp' # StatusOK

(***************************************************************************)
(* C11: in download mode the file at the output path is left as it was by  *)
(* every step taken while no response of status 200 is held, so a failed   *)
(* request or another status leaves it unchanged, neither created nor      *)
(* truncated; the status received is never replaced; and every step that  *)
(* ends with downloadCSVDatabase having returned nil ends with a 200       *)
(* response received and the file holding the whole response body.         *)
(***************************************************************************)
OutputFileWrittenOnlyAfterOK ==
  /\ [][NoOKResponse => db' = db]_vars
  /\ [][(config.Mode = "download" /\ pc # "get") => resp' = resp]_vars
  /\ [][(DownloadReturned /\ ret.err = nil)' =>
          (resp = StatusOK /\ db = FileOf(RemoteCsv))']_vars

\* downloadCSVDatabase returned after a response of another status than 200
\* while a file was present at the output path.
OutputFileKeptWitness ==
  /\ DownloadReturned
  /\ resp = 404
  /\ ret.err = "unexpected status code"
  /\ db = FileOf(<<HeaderLine(expectedColumns)>>)

====
